---- MODULE Spec2Model ----
(***************************************************************************)
(* Scoring and classification engine of the personality quiz               *)
(* (core.js / app.js): item scorer, session score accumulator with its     *)
(* answer transition timers, and the type classifier.                      *)
(*                                                                         *)
(* JavaScript numbers are IEEE-754 doubles.  The accumulated scores are    *)
(* modelled as doubles, exactly: a score is an integer count of units of   *)
(* 2^-50 held in two limbs <<hi, lo>> (value = hi * LIMB + lo,             *)
(* 0 <= lo < LIMB), and every addition rounds its exact result to 53       *)
(* significant bits, ties to even, as the hardware does.                   *)
(***************************************************************************)
EXTENDS Integers, Naturals, Sequences, FiniteSets, TLC

\* questions .. timer: the session of app.js; rendered: what render() put
\* on the page when it ran last; lastOp and lastRecorded record the call made
\* last and the question recorded last (0: none since the last reset);
\* scoreVector, stackTable and result: the arguments of the classifier and
\* its output
VARIABLES questions, currentQuestion, answers, functionScores, showResult,
          isProcessing, timer, rendered, lastOp, lastRecorded, scoreVector,
          stackTable, result, call, returned, shuffleInput, attempt, shuffled,
          shuffleOutput

vars == <<questions, currentQuestion, answers, functionScores, showResult,
          isProcessing, timer, rendered, lastOp, lastRecorded, scoreVector,
          stackTable, result, call, returned, shuffleInput, attempt, shuffled,
          shuffleOutput>>

sessionVars == <<questions, currentQuestion, answers, functionScores,
                 showResult, isProcessing, timer, rendered, lastOp,
                 lastRecorded>>

classifierVars == <<scoreVector, stackTable, result>>

\* a call of calculateScore or normalizeScore and what it returned
pureVars == <<call, returned>>

\* a call of shuffleQuestionsWithConstraints: its argument, its loop counter,
\* the permutation of the last iteration and what it returned
sequencerVars == <<shuffleInput, attempt, shuffled, shuffleOutput>>

(***************************************************************************)
(* Bounds                                                                  *)
(***************************************************************************)
\* number of questions of the two-dimension bank
BankSize == 3
\* number of questions of the single-dimension bank
LongBankSize == 7
\* largest magnitude of an entry of a classifier input vector
MaxScore == 1
\* largest number of non-zero entries of a classifier input vector
MaxNonZero == 4
\* how far below 1 and above 5 the values handed to calculateScore reach
ValueMargin == 1
\* largest magnitude of the raw scores handed to normalizeScore
RawBound == 22
\* number of questions of the banks handed to the sequencer
ShuffleBankSize == 3
\* number of questions of the bank that reaches the display threshold
DisplayBankSize == 8
\* most entries other than 0 in the score vectors handed to both cores
CoresMaxNonZero == 3

(***************************************************************************)
(* IEEE-754 double arithmetic on the values the accumulator can hold       *)
(***************************************************************************)
\* one limb
LIMB == 2 ^ 27

\* 1.0 in units of 2^-50: 2^50 = 2^23 * LIMB
One == <<2 ^ 23, 0>>

Zero == <<0, 0>>

\* Math.pow(2, 1.2) = 2.2973967099940698 = 0x12611186BAE674 * 2^-51
\*                  = 2586638741762874 * 2^-50
Pow2 == <<19271960, 56455994>>

FNeg(x) == IF x[2] = 0 THEN <<-x[1], 0>> ELSE <<-x[1] - 1, LIMB - x[2]>>

FLess(x, y) == x[1] < y[1] \/ (x[1] = y[1] /\ x[2] < y[2])

ExactAdd(x, y) ==
    LET s == x[2] + y[2]
    IN  <<x[1] + y[1] + (s \div LIMB), s % LIMB>>

\* number of low bits a magnitude loses when it is rounded to 53 significant
\* bits: none below 2^53 units (|x| < 8), one in [8, 16), two in [16, 32), ...
DropBits(hi) ==
    IF hi < 2 ^ 26 THEN 0
    ELSE IF hi < 2 ^ 27 THEN 1
    ELSE IF hi < 2 ^ 28 THEN 2
    ELSE IF hi < 2 ^ 29 THEN 3
    ELSE 4

\* round a non-negative magnitude to nearest, ties to even
RoundMagnitude(n) ==
    LET k  == DropBits(n[1])
        p  == 2 ^ k
        q  == n[2] \div p
        r  == n[2] % p
        up == (2 * r > p) \/ (2 * r = p /\ q % 2 = 1)
        lo == (q + (IF up THEN 1 ELSE 0)) * p
    IN  IF lo = LIMB THEN <<n[1] + 1, 0>> ELSE <<n[1], lo>>

FRound(x) == IF x[1] < 0 THEN FNeg(RoundMagnitude(FNeg(x)))
             ELSE RoundMagnitude(x)

\* x + y and x - y on doubles
FAdd(x, y) == FRound(ExactAdd(x, y))

FSub(x, y) == FRound(ExactAdd(x, FNeg(y)))

\* NaN, which no sum of scores is: the low limb of a number is never negative
NaN == <<0, -1>>

\* + and - of JavaScript on a double, NaN or undefined (undefined is given
\* as NaN: it converts to NaN in arithmetic)
JsAdd(x, y) == IF x = NaN \/ y = NaN THEN NaN ELSE FAdd(x, y)

JsSub(x, y) == IF x = NaN \/ y = NaN THEN NaN ELSE FSub(x, y)

(***************************************************************************)
(* Constant tables                                                         *)
(***************************************************************************)
FunctionOrder == <<"Ni", "Ne", "Si", "Se", "Ti", "Te", "Fi", "Fe">>

FUNCTIONS == {FunctionOrder[i] : i \in 1..Len(FunctionOrder)}

LIKERT_SCALE_MIDPOINT == 3

LIKERT_SCALE_REVERSE_BASE == 6

LikertValues == 1..5

(***************************************************************************)
(* Item scorer                                                             *)
(***************************************************************************)
\* a scorer that weights every deviation from the midpoint alike
PowEmphasisFlat(n) == IF n = 0 THEN Zero ELSE One

\* a scorer that doubles the emphasis of the extreme answers
PowEmphasisSteep(n) ==
    IF n = 0 THEN Zero ELSE IF n = 1 THEN One ELSE ExactAdd(Pow2, Pow2)

\* Math.pow(n, 1.2) for the deviations 0, 1, 2
PowEmphasis(n) == IF n = 0 THEN Zero ELSE IF n = 1 THEN One ELSE Pow2

Abs(n) == IF n < 0 THEN -n ELSE n

\* value >= 1 && value <= 5, on the integers
isValidLikertValue(value) == value >= 1 /\ value <= 5

\* calculateScore without the reversal of lines 324-327
calculateScoreIgnoresReverse(value, isReverse) ==
    IF ~isValidLikertValue(value) THEN Zero
    ELSE LET deviation == value - LIKERT_SCALE_MIDPOINT
             magnitude == PowEmphasis(Abs(deviation))
         IN  IF deviation < 0 THEN FNeg(magnitude) ELSE magnitude

\* calculateScore of the refactored core on an integer value
calculateScore(value, isReverse) ==
    IF ~isValidLikertValue(value) THEN Zero
    ELSE LET actualValue == IF isReverse
                            THEN LIKERT_SCALE_REVERSE_BASE - value
                            ELSE value
             deviation   == actualValue - LIKERT_SCALE_MIDPOINT
             magnitude   == PowEmphasis(Abs(deviation))
         IN  IF deviation < 0 THEN FNeg(magnitude) ELSE magnitude

(***************************************************************************)
(* Question bank (data.js) and the order the sequencer hands to the session *)
(***************************************************************************)
\* a bank over two dimensions, alternating, with reversed and plain items
Question(i) ==
    [id      |-> i,
     type    |-> IF i % 2 = 1 THEN "Ni" ELSE "Te",
     reverse |-> (i % 4) \in {2, 3}]

originalQuestions == [i \in 1..BankSize |-> Question(i)]

\* a bank whose questions all score the same dimension
LongQuestion(i) == [id |-> i, type |-> "Ni", reverse |-> FALSE]

longQuestions == [i \in 1..LongBankSize |-> LongQuestion(i)]

\* a bank with as many questions as the provisional display asks for
displayQuestions == [i \in 1..DisplayBankSize |-> Question(i)]

\* the two-dimension bank with the k-th question referring to a dimension
\* that FUNCTIONS does not define
MalformedBank(k) ==
    [i \in 1..BankSize |->
        IF i = k THEN [Question(i) EXCEPT !.type = "Xx"] ELSE Question(i)]

\* an answer that has not been given: state.answers[id] === undefined
NoAnswer == [value |-> 0, isReverse |-> FALSE]

(***************************************************************************)
(* Session state                                                           *)
(***************************************************************************)
NoTimer == [stage |-> "none", callback |-> "none"]

\* the page before the first render()
NoRender == [app |-> "none", summary |-> "none"]

MIN_ANSWERS_FOR_PROVISIONAL == 8

\* updateSidePanel: what the side panel shows for the answers recorded, the
\* placeholder below the threshold and the provisional type from it on
updateSidePanel(ans) ==
    IF Cardinality(DOMAIN ans) < MIN_ANSWERS_FOR_PROVISIONAL
    THEN "placeholder" ELSE "provisional"

\* render(): renderResult fills the container with the final type and
\* leaves the side panel as it was; otherwise renderQuestion fills the
\* container and updateSidePanel the side panel
render(show, ans, page) ==
    IF show THEN [app |-> "result", summary |-> page.summary]
    ELSE [app |-> "question", summary |-> updateSidePanel(ans)]

createDefaultState ==
    [currentQuestion |-> 0,
     answers         |-> [i \in {} |-> NoAnswer],
     functionScores  |-> [f \in FUNCTIONS |-> Zero],
     showResult      |-> FALSE]

SessionInit(bank) ==
    /\ questions = bank
    /\ currentQuestion = createDefaultState.currentQuestion
    /\ answers = createDefaultState.answers
    /\ functionScores = createDefaultState.functionScores
    /\ showResult = createDefaultState.showResult
    /\ isProcessing = FALSE
    /\ timer = NoTimer
    /\ rendered = render(createDefaultState.showResult,
                         createDefaultState.answers, NoRender)
    /\ lastOp = "load"
    /\ lastRecorded = 0

\* questions[state.currentQuestion] (JavaScript indexes from 0)
CurrentQuestion == questions[currentQuestion + 1]

Answered(id) == id \in DOMAIN answers

\* RecordAnswer without lines 150-155: the old contribution stays in the score
RecordAnswerKeepsOld(ans, scores, q, value) ==
    LET funcType  == q.type
        isReverse == q.reverse
        delta     == calculateScore(value, isReverse)
    IN  [answers |-> [i \in (DOMAIN ans) \cup {q.id} |->
                        IF i = q.id
                        THEN [value |-> value, isReverse |-> isReverse]
                        ELSE ans[i]],
         functionScores |-> [scores EXCEPT ![funcType] =
                                FAdd(scores[funcType], delta)]]

\* RecordAnswer storing isReverse: false whatever the question
RecordAnswerDropsFlag(ans, scores, q, value) ==
    LET funcType  == q.type
        isReverse == q.reverse
        removed   == IF q.id \in DOMAIN ans
                     THEN FSub(scores[funcType],
                               calculateScore(ans[q.id].value, isReverse))
                     ELSE scores[funcType]
        delta     == calculateScore(value, isReverse)
    IN  [answers |-> [i \in (DOMAIN ans) \cup {q.id} |->
                        IF i = q.id
                        THEN [value |-> value, isReverse |-> FALSE]
                        ELSE ans[i]],
         functionScores |-> [scores EXCEPT ![funcType] = FAdd(removed, delta)]]

\* RecordAnswer adding the new item score to every dimension
RecordAnswerAllDimensions(ans, scores, q, value) ==
    LET isReverse == q.reverse
        delta     == calculateScore(value, isReverse)
    IN  [answers |-> [i \in (DOMAIN ans) \cup {q.id} |->
                        IF i = q.id
                        THEN [value |-> value, isReverse |-> isReverse]
                        ELSE ans[i]],
         functionScores |-> [f \in DOMAIN scores |-> FAdd(scores[f], delta)]]

\* lines 142-166 of handleAnswer: the answers and scores after recording
\* value for question q in the session <<ans, scores>>
\* state.functionScores[funcType] is undefined for a key the object lacks,
\* and the assignment of line 166 then adds the key
RecordAnswer(ans, scores, q, value) ==
    LET funcType  == q.type
        isReverse == q.reverse
        current   == IF funcType \in DOMAIN scores THEN scores[funcType]
                     ELSE NaN
        removed   == IF q.id \in DOMAIN ans
                     THEN JsSub(current,
                                calculateScore(ans[q.id].value, isReverse))
                     ELSE current
        delta     == calculateScore(value, isReverse)
    IN  [answers |-> [i \in (DOMAIN ans) \cup {q.id} |->
                        IF i = q.id
                        THEN [value |-> value, isReverse |-> isReverse]
                        ELSE ans[i]],
         functionScores |-> [f \in (DOMAIN scores) \cup {funcType} |->
                               IF f = funcType THEN JsAdd(removed, delta)
                               ELSE scores[f]]]

\* handleAnswer without its guard
AcceptsAlways == TRUE

\* the guard of handleAnswer: calls made while a transition runs are ignored
Accepts == ~isProcessing

\* showScorePopup reads FUNCTIONS[funcType].name: for a funcType that is no
\* key of FUNCTIONS the property access on undefined throws a TypeError
showScorePopupThrows(funcType) == funcType \notin FUNCTIONS

\* window.handleAnswer.  The exception of showScorePopup leaves the handler
\* after the answer and the score are stored and isProcessing is set, and
\* before a timer is armed
handleAnswer(value) ==
    /\ Accepts
    /\ LET q   == CurrentQuestion
           rec == RecordAnswer(answers, functionScores, q, value)
       IN  /\ answers' = rec.answers
           /\ functionScores' = rec.functionScores
           /\ lastOp' = IF showScorePopupThrows(q.type) THEN "answerThrew"
                        ELSE IF /\ lastRecorded = q.id
                                /\ Answered(q.id)
                                /\ answers[q.id].value = value
                        THEN "answerRepeated" ELSE "answer"
           /\ lastRecorded' = q.id
           /\ timer' = IF showScorePopupThrows(q.type) THEN timer
                       ELSE [stage    |-> "feedback",
                             callback |-> IF currentQuestion < Len(questions) - 1
                                          THEN "advance" ELSE "showResult"]
    /\ isProcessing' = TRUE
    /\ UNCHANGED <<questions, currentQuestion, showResult, rendered>>

handleAnswerIgnored ==
    /\ ~Accepts
    /\ lastOp' = "answerIgnored"
    /\ UNCHANGED <<questions, currentQuestion, answers, functionScores,
                   showResult, isProcessing, timer, rendered, lastRecorded>>

\* the BUTTON_FEEDBACK timer fires and calls nextStep, which arms the
\* SCREEN_TRANSITION timer
feedbackTimer ==
    /\ timer.stage = "feedback"
    /\ timer' = [timer EXCEPT !.stage = "transition"]
    /\ lastOp' = "feedbackTimer"
    /\ UNCHANGED <<questions, currentQuestion, answers, functionScores,
                   showResult, isProcessing, rendered, lastRecorded>>

\* the transition timer fires but the busy flag stays set
nextStepKeepsLock ==
    /\ timer.stage = "transition"
    /\ IF timer.callback = "advance"
       THEN currentQuestion' = currentQuestion + 1 /\ UNCHANGED showResult
       ELSE showResult' = TRUE /\ UNCHANGED currentQuestion
    /\ rendered' = render(showResult', answers, rendered)
    /\ timer' = NoTimer
    /\ lastOp' = "nextStep"
    /\ UNCHANGED <<questions, answers, functionScores, isProcessing,
                   lastRecorded>>

\* the SCREEN_TRANSITION timer of nextStep fires: callback(); render();
\* isProcessing = false
nextStep ==
    /\ timer.stage = "transition"
    /\ IF timer.callback = "advance"
       THEN currentQuestion' = currentQuestion + 1 /\ UNCHANGED showResult
       ELSE showResult' = TRUE /\ UNCHANGED currentQuestion
    /\ rendered' = render(showResult', answers, rendered)
    /\ isProcessing' = FALSE
    /\ timer' = NoTimer
    /\ lastOp' = "nextStep"
    /\ UNCHANGED <<questions, answers, functionScores, lastRecorded>>

\* goBack without the test of the position
goBackBelowFirst ==
    /\ ~isProcessing
    /\ currentQuestion' = currentQuestion - 1
    /\ rendered' = render(showResult, answers, rendered)
    /\ lastOp' = "goBack"
    /\ UNCHANGED <<questions, answers, functionScores, showResult,
                   isProcessing, timer, lastRecorded>>

\* goBack without the test of the busy flag
goBackWhileProcessing ==
    /\ currentQuestion > 0
    /\ currentQuestion' = currentQuestion - 1
    /\ rendered' = render(showResult, answers, rendered)
    /\ lastOp' = "goBack"
    /\ UNCHANGED <<questions, answers, functionScores, showResult,
                   isProcessing, timer, lastRecorded>>

\* window.goBack
goBack ==
    /\ currentQuestion > 0 /\ ~isProcessing
    /\ currentQuestion' = currentQuestion - 1
    /\ rendered' = render(showResult, answers, rendered)
    /\ lastOp' = "goBack"
    /\ UNCHANGED <<questions, answers, functionScores, showResult,
                   isProcessing, timer, lastRecorded>>

goBackIgnored ==
    /\ ~(currentQuestion > 0 /\ ~isProcessing)
    /\ lastOp' = "goBackIgnored"
    /\ UNCHANGED <<questions, currentQuestion, answers, functionScores,
                   showResult, isProcessing, timer, rendered, lastRecorded>>

\* reset as state = { ...defaultState }: a shallow copy, which shares the
\* answers and functionScores objects that handleAnswer mutated in place
resetShallow ==
    /\ currentQuestion' = createDefaultState.currentQuestion
    /\ showResult' = createDefaultState.showResult
    /\ rendered' = render(showResult', answers, rendered)
    /\ lastOp' = "reset"
    /\ lastRecorded' = 0
    /\ UNCHANGED <<questions, answers, functionScores, isProcessing, timer>>

\* window.reset of the earlier app: state = { ...defaultState } copies the
\* four properties of the template.  state.answers and state.functionScores
\* have been the template's own objects since the first such copy, and
\* handleAnswer writes into them, so the copy brings back the objects with
\* what was recorded
resetFromTemplate ==
    /\ currentQuestion' = createDefaultState.currentQuestion
    /\ showResult' = createDefaultState.showResult
    /\ rendered' = render(showResult', answers, rendered)
    /\ lastOp' = "reset"
    /\ lastRecorded' = 0
    /\ UNCHANGED <<questions, answers, functionScores, isProcessing, timer>>

\* window.reset
reset ==
    /\ currentQuestion' = createDefaultState.currentQuestion
    /\ answers' = createDefaultState.answers
    /\ functionScores' = createDefaultState.functionScores
    /\ showResult' = createDefaultState.showResult
    /\ rendered' = render(showResult', answers', rendered)
    /\ lastOp' = "reset"
    /\ lastRecorded' = 0
    /\ UNCHANGED <<questions, isProcessing, timer>>

(***************************************************************************)
(* Type classifier                                                         *)
(***************************************************************************)
\* Object.entries(COGNITIVE_STACKS): the 16 types in the order of definition
TypeOrder ==
    <<"INTJ", "INTP", "ENTJ", "ENTP", "INFJ", "INFP", "ENFJ", "ENFP",
      "ISTJ", "ISFJ", "ESTJ", "ESFJ", "ISTP", "ISFP", "ESTP", "ESFP">>

COGNITIVE_STACKS ==
    [INTJ |-> <<"Ni", "Te", "Fi", "Se">>, INTP |-> <<"Ti", "Ne", "Si", "Fe">>,
     ENTJ |-> <<"Te", "Ni", "Se", "Fi">>, ENTP |-> <<"Ne", "Ti", "Fe", "Si">>,
     INFJ |-> <<"Ni", "Fe", "Ti", "Se">>, INFP |-> <<"Fi", "Ne", "Si", "Te">>,
     ENFJ |-> <<"Fe", "Ni", "Se", "Ti">>, ENFP |-> <<"Ne", "Fi", "Te", "Si">>,
     ISTJ |-> <<"Si", "Te", "Fi", "Ne">>, ISFJ |-> <<"Si", "Fe", "Ti", "Ne">>,
     ESTJ |-> <<"Te", "Si", "Ne", "Fi">>, ESFJ |-> <<"Fe", "Si", "Ne", "Ti">>,
     ISTP |-> <<"Ti", "Se", "Ni", "Fe">>, ISFP |-> <<"Fi", "Se", "Ni", "Te">>,
     ESTP |-> <<"Se", "Ti", "Fe", "Ni">>, ESFP |-> <<"Se", "Fi", "Te", "Ni">>]

\* the weights with the inferior function weighted like the tertiary one
stackWeightsFlatTail == <<8, 4, 2, 2>>

\* the four positions of a stack weighted alike
stackWeightsUniform == <<2, 2, 2, 2>>

\* the inferior function weighted above the tertiary one
stackWeightsAscendingTail == <<8, 4, 1, 2>>

\* JUNG_FUNCTION_WEIGHTS 4.0, 2.0, 1.0, 0.5 in units of 1/2: the score
\* vectors classified here hold integers, every total is a multiple of 1/2
\* and is kept as twice its value
stackWeights == <<8, 4, 2, 1>>

\* a missing key counted as 1
FuncScoreDefaultOne(scores, funcName) ==
    IF funcName \in DOMAIN scores THEN scores[funcName] ELSE 1

\* functionScores[funcName] || 0: a missing key (undefined) counts 0
FuncScore(scores, funcName) ==
    IF funcName \in DOMAIN scores THEN scores[funcName] ELSE 0

\* the loop over the positions 0 .. n-1 of a stack
RECURSIVE TotalScore(_, _, _)
TotalScore(scores, functionStack, n) ==
    IF n = 0 THEN 0
    ELSE TotalScore(scores, functionStack, n - 1)
         + FuncScore(scores, functionStack[n]) * stackWeights[n]

\* Object.entries(COGNITIVE_STACKS): the table as the classifier walks it
Entries == [i \in 1..Len(TypeOrder) |-> <<TypeOrder[i], COGNITIVE_STACKS[TypeOrder[i]]>>]

TypeScores(scores) ==
    [typeName \in DOMAIN COGNITIVE_STACKS |->
        TotalScore(scores, COGNITIVE_STACKS[typeName],
                   Len(COGNITIVE_STACKS[typeName]))]

\* the comparator (a, b) => a[1] - b[1]: ascending order
GoesBeforeAscending(b, a) == a[2] - b[2] > 0

\* a sort that also moves an entry in front of the entries equal to it
GoesBeforeOrEqual(b, a) == b[2] - a[2] >= 0

\* the comparator (a, b) => b[1] - a[1] is positive: b goes before a
GoesBefore(b, a) == b[2] - a[2] > 0

\* Array.prototype.sort is stable (ECMAScript 2019; the sources use optional
\* chaining, which is later): an entry moves in front of those entries only
\* that the comparator orders after it
RECURSIVE InsertSorted(_, _)
InsertSorted(sorted, entry) ==
    IF sorted = <<>> THEN <<entry>>
    ELSE IF GoesBefore(entry, sorted[Len(sorted)])
         THEN Append(InsertSorted(SubSeq(sorted, 1, Len(sorted) - 1), entry),
                     sorted[Len(sorted)])
         ELSE Append(sorted, entry)

RECURSIVE SortEntries(_, _)
SortEntries(entries, n) ==
    IF n = 0 THEN <<>>
    ELSE InsertSorted(SortEntries(entries, n - 1), entries[n])

\* Object.entries(typeScores).sort((a, b) => b[1] - a[1])
SortedTypes(typeScores) ==
    SortEntries([i \in 1..Len(TypeOrder) |->
                    <<TypeOrder[i], typeScores[TypeOrder[i]]>>],
                Len(TypeOrder))

\* A number x + y * CONFIDENCE_CALCULATION_EPSILON with integers x, y is the
\* pair <<x, y>>; as |y| * 1e-6 < 1 here, the pairs compare as the numbers do
EpsLeq(a, b) == a[1] < b[1] \/ (a[1] = b[1] /\ a[2] <= b[2])

\* Math.round(100 * (scoreDifference / scoreSum)) with scoreSum =
\* |first| + |second| + EPSILON, the scores given doubled.  Math.round(x) is
\* floor(x + 1/2), and x + 1/2 = (n + 2 * EPSILON) / (m + 4 * EPSILON) with
\* n = 200 * difference + absSum and m = 2 * absSum: the floor is n \div m,
\* or one less where k * (m + 4 * EPSILON) exceeds n + 2 * EPSILON
RoundedConfidence(firstScore, secondScore) ==
    LET scoreDifference == firstScore - secondScore
        absSum          == Abs(firstScore) + Abs(secondScore)
        n               == 200 * scoreDifference + absSum
        m               == 2 * absSum
        k               == IF m = 0 THEN 0 ELSE n \div m
    IN  IF EpsLeq(<<k * m, 4 * k>>, <<n, 2>>) THEN k ELSE k - 1

Min(a, b) == IF a < b THEN a ELSE b

Max(a, b) == IF a > b THEN a ELSE b

\* the clamp with Math.max in the place of Math.min
ClampConfidenceMaxTwice(x) == Max(0, Max(100, x))

\* Math.max(CONFIDENCE_BOUNDS.MIN, Math.min(CONFIDENCE_BOUNDS.MAX, x))
ClampConfidence(x) == Max(0, Min(100, x))

\* the result with the winner entered twice in top2
determineMBTITypeTopTwice(scores) ==
    LET typeScores  == TypeScores(scores)
        sortedTypes == SortedTypes(typeScores)
        first       == sortedTypes[1]
    IN  [type       |-> first[1],
         confidence |-> ClampConfidence(RoundedConfidence(first[2], first[2])),
         top2       |-> <<first[1], first[1]>>,
         typeScores |-> typeScores]

\* determineMBTIType of the refactored core on the shipped table, for a
\* functionScores object
determineMBTIType(scores) ==
    LET typeScores  == TypeScores(scores)
        sortedTypes == SortedTypes(typeScores)
        first       == sortedTypes[1]
        second      == sortedTypes[2]
    IN  [type       |-> first[1],
         confidence |-> ClampConfidence(RoundedConfidence(first[2], second[2])),
         top2       |-> <<first[1], second[1]>>,
         typeScores |-> typeScores]

\* the classifier has not been called
NoResult ==
    [type       |-> "none",
     confidence |-> 0,
     top2       |-> <<"none", "none">>,
     typeScores |-> [typeName \in {} |-> 0]]

classify ==
    /\ result = NoResult
    /\ result' = determineMBTIType(scoreVector)
    /\ UNCHANGED <<scoreVector, stackTable>>

\* the loop over Object.entries of the table handed to determineMBTIType:
\* one total per entry, over the positions that its stack has
TableScores(scores, table) ==
    [i \in 1..Len(table) |->
        <<table[i][1], TotalScore(scores, table[i][2], Len(table[i][2]))>>]

\* determineMBTIType(functionScores, COGNITIVE_STACKS) for a table of at
\* least one entry whose stacks have at most 4 positions: the argument is
\* used as it comes, and sortedTypes[1] || [null, 0] stands in for a second
\* entry that is missing
determineMBTITypeWith(scores, table) ==
    LET entries     == TableScores(scores, table)
        sortedTypes == SortEntries(entries, Len(entries))
        first       == sortedTypes[1]
        second      == IF Len(sortedTypes) >= 2 THEN sortedTypes[2]
                       ELSE <<"null", 0>>
    IN  [type       |-> first[1],
         confidence |-> ClampConfidence(RoundedConfidence(first[2], second[2])),
         top2       |-> <<first[1], second[1]>>,
         typeScores |-> [typeName \in {entries[i][1] : i \in 1..Len(entries)} |->
                            LET i == CHOOSE j \in 1..Len(entries) :
                                        entries[j][1] = typeName
                            IN  entries[i][2]]]

\* the call the application makes, with the table that is configured
classifyWithTable ==
    /\ returned.fn = "startup"
    /\ result = NoResult
    /\ result' = determineMBTITypeWith(scoreVector, stackTable)
    /\ UNCHANGED <<scoreVector, stackTable>>

(***************************************************************************)
(* calculateScore and normalizeScore on JavaScript values                  *)
(***************************************************************************)
\* a JavaScript value handed to calculateScore: the integer n, the number
\* n + 1/2, NaN or undefined
JsValues ==
    {[kind |-> k, n |-> i] :
        k \in {"integer", "fraction"},
        i \in (1 - ValueMargin)..(5 + ValueMargin)}
    \cup {[kind |-> k, n |-> 0] : k \in {"NaN", "undefined"}}

NumberIsInteger(value) == value.kind = "integer"

\* isValidLikertValue of the refactored core on a JavaScript value
isValidJsLikertValue(value) ==
    NumberIsInteger(value) /\ isValidLikertValue(value.n)

\* calculateScore of the refactored core: an invalid value is reported with
\* console.error and scores 0
calculateScoreJs(value, isReverse) ==
    [score    |-> IF NumberIsInteger(value)
                  THEN calculateScore(value.n, isReverse) ELSE Zero,
     reported |-> ~isValidJsLikertValue(value)]

Sign(n) == IF n < 0 THEN -1 ELSE IF n > 0 THEN 1 ELSE 0

\* calculateScore of core.js, which has no validation.  The result is
\* Math.sign(base) * Math.pow(Math.abs(base), 1.2), kept as the sign and
\* the argument of Math.pow in halves (the power is 0 for the argument 0
\* only); arithmetic on NaN or undefined gives NaN
coreCalculateScore(value, isReverse) ==
    IF value.kind \in {"NaN", "undefined"}
    THEN [kind |-> "NaN", sign |-> 0, absBase |-> 0, reported |-> FALSE]
    ELSE LET halves      == IF value.kind = "integer" THEN 2 * value.n
                            ELSE 2 * value.n + 1
             \* 6 - value and actualValue - 3, in halves
             actualValue == IF isReverse THEN 12 - halves ELSE halves
             base        == actualValue - 6
         IN  [kind |-> "number", sign |-> Sign(base), absBase |-> Abs(base),
              reported |-> FALSE]

\* no function has been called, nothing has been returned
NoCall == [fn |-> "none", value |-> [kind |-> "undefined", n |-> 0],
           isReverse |-> FALSE, rawScore |-> 0]

NoReturn == [fn |-> "none", out |-> 0]

callCalculateScore ==
    /\ call.fn = "calculateScore" /\ returned.fn = "none"
    /\ returned' = [fn  |-> "calculateScore",
                    out |-> calculateScoreJs(call.value, call.isReverse)]
    /\ UNCHANGED call

callCoreCalculateScore ==
    /\ call.fn = "calculateScore" /\ returned.fn = "none"
    /\ returned' = [fn  |-> "coreCalculateScore",
                    out |-> coreCalculateScore(call.value, call.isReverse)]
    /\ UNCHANGED call

\* the number that a result of calculateScore of core.js stands for, for an
\* integer base: Math.sign(base) * Math.pow(Math.abs(base), 1.2)
CoreScoreValue(out) ==
    IF out.sign = 0 THEN Zero
    ELSE IF out.sign > 0 THEN PowEmphasis(out.absBase \div 2)
    ELSE FNeg(PowEmphasis(out.absBase \div 2))

\* the weights of core.js with the inferior function left out
coreWeightsNoInferior == <<8, 4, 2, 0>>

\* const weights = [4, 2, 1, 0.5] of determineMBTIType of core.js, doubled
\* as stackWeights is
coreWeights == <<8, 4, 2, 1>>

\* the inner loop of core.js: totalScore += (functionScores[func] || 0) *
\* weights[i]
RECURSIVE CoreTotalScore(_, _, _)
CoreTotalScore(scores, stack, n) ==
    IF n = 0 THEN 0
    ELSE CoreTotalScore(scores, stack, n - 1)
         + FuncScore(scores, stack[n]) * coreWeights[n]

\* determineMBTIType of core.js on the shipped table: no test of its
\* arguments, sorted[1] taken as it is, the same comparator, confidence
\* expression and clamp
coreDetermineMBTIType(scores) ==
    LET typeScores == [type \in DOMAIN COGNITIVE_STACKS |->
                          CoreTotalScore(scores, COGNITIVE_STACKS[type],
                                         Len(COGNITIVE_STACKS[type]))]
        sorted     == SortedTypes(typeScores)
        best       == sorted[1]
        second     == sorted[2]
        confidence == RoundedConfidence(best[2], second[2])
    IN  [type       |-> best[1],
         confidence |-> Max(0, Min(confidence, 100)),
         top2       |-> <<best[1], second[1]>>,
         typeScores |-> typeScores]

\* the same score vector handed to determineMBTIType of core.js
coreClassify ==
    /\ call.fn = "determineMBTIType" /\ returned.fn = "none"
    /\ returned' = [fn  |-> "coreDetermineMBTIType",
                    out |-> coreDetermineMBTIType(scoreVector)]
    /\ UNCHANGED call

(***************************************************************************)
(* Normalizer.  A raw score is given in quarters; with n = 4 * (raw + 20)  *)
(* the exact value of ((raw - MIN) / (MAX - MIN)) * 100 is 5 * n / 8.  The *)
(* double that the expression computes is found with integers of three    *)
(* limbs of 24 bits <<high, middle, low>>.                                *)
(***************************************************************************)
SCORE_NORMALIZATION ==
    [MIN |-> -20, MAX |-> 20, OUTPUT_MIN |-> 0, OUTPUT_MAX |-> 100]

B24 == 2 ^ 24

BigOf(n) == <<0, 0, n>>

\* x * k for a factor k <= 128
BigTimes(x, k) ==
    LET low    == x[3] * k
        middle == x[2] * k + (low \div B24)
        high   == x[1] * k + (middle \div B24)
    IN  <<high, middle % B24, low % B24>>

\* quotient and remainder of x by a divisor d <= 128
BigDivMod(x, d) ==
    LET middle == (x[1] % d) * B24 + x[2]
        low    == (middle % d) * B24 + x[3]
    IN  [quot |-> <<x[1] \div d, middle \div d, low \div d>>, rem |-> low % d]

BigSucc(x) ==
    IF x[3] + 1 < B24 THEN <<x[1], x[2], x[3] + 1>>
    ELSE IF x[2] + 1 < B24 THEN <<x[1], x[2] + 1, 0>>
    ELSE <<x[1] + 1, 0, 0>>

BigLess(x, y) ==
    \/ x[1] < y[1]
    \/ x[1] = y[1] /\ x[2] < y[2]
    \/ x[1] = y[1] /\ x[2] = y[2] /\ x[3] < y[3]

\* x * 2^s, a limb at a time while the high limb is empty, then by 6 bits
RECURSIVE BigShift(_, _)
BigShift(x, s) ==
    IF s >= 24 /\ x[1] = 0 THEN BigShift(<<x[2], x[3], 0>>, s - 24)
    ELSE IF s >= 6 THEN BigShift(BigTimes(x, 2 ^ 6), s - 6)
    ELSE BigTimes(x, 2 ^ s)

\* round the quotient of x by d to nearest, ties to even
BigRoundedQuotient(x, d) ==
    LET dm == BigDivMod(x, d)
        up == \/ 2 * dm.rem > d
              \/ 2 * dm.rem = d /\ dm.quot[3] % 2 = 1
    IN  IF up THEN BigSucc(dm.quot) ELSE dm.quot

\* the e with 2^e <= n / 5 < 2^(e + 1), for 1 <= n < 5 * 2^11
BinaryExponent(n) ==
    CHOOSE e \in (-3)..10 : 5 * 2 ^ (e + 3) <= 8 * n /\ 8 * n < 5 * 2 ^ (e + 4)

\* -1, 0 or 1 as the double (n / 160) * 100 lies below, on or above the
\* exact 5 * n / 8, for n >= 1.  n / 160 rounds to m * 2^-(s + 5) with the
\* 53-bit m = round(n * 2^s / 5); m * 100 has 59 or 60 bits and loses k = 6
\* or 7 of them, which gives y * 2^(k - s - 5); y is compared with
\* 5 * n * 2^(s + 2 - k)
DoubleOffset(n) ==
    LET s      == 52 - BinaryExponent(n)
        m      == BigRoundedQuotient(BigShift(BigOf(n), s), 5)
        p      == BigTimes(m, 100)
        k      == IF BigLess(p, <<2 ^ 11, 0, 0>>) THEN 6 ELSE 7
        y      == BigRoundedQuotient(p, 2 ^ k)
        exact  == BigShift(BigOf(5 * n), s + 2 - k)
    IN  IF BigLess(y, exact) THEN -1 ELSE IF BigLess(exact, y) THEN 1 ELSE 0

\* the double ((rawScore - MIN) / (MAX - MIN)) * (OUTPUT_MAX - OUTPUT_MIN)
\* + OUTPUT_MIN for the raw score of q quarters: the exact value in eighths
\* and the side of it on which the double lies
LinearMap(q) ==
    LET n == q - 4 * SCORE_NORMALIZATION.MIN
    IN  [eighths |-> 5 * n,
         offset  |-> IF n = 0 THEN 0 ELSE Sign(n) * DoubleOffset(Abs(n))]

\* Math.round(x) = floor(x + 1/2): a double within a few units in the last
\* place of e / 8 rounds as e / 8 does, unless e / 8 + 1/2 is an integer
\* and the double lies below it
MathRound(x) ==
    LET up == (x.eighths + 4) \div 8
    IN  IF (x.eighths + 4) % 8 = 0 /\ x.offset < 0 THEN up - 1 ELSE up

\* the clamp without Math.max: nothing is raised to OUTPUT_MIN
ClampDoubleUpperOnly(x) ==
    IF x.eighths > 8 * SCORE_NORMALIZATION.OUTPUT_MAX
    THEN [eighths |-> 8 * SCORE_NORMALIZATION.OUTPUT_MAX, offset |-> 0]
    ELSE x

\* Math.max(OUTPUT_MIN, Math.min(OUTPUT_MAX, x)) on a double
ClampDouble(x) ==
    IF x.eighths < 8 * SCORE_NORMALIZATION.OUTPUT_MIN
    THEN [eighths |-> 8 * SCORE_NORMALIZATION.OUTPUT_MIN, offset |-> 0]
    ELSE IF x.eighths > 8 * SCORE_NORMALIZATION.OUTPUT_MAX
    THEN [eighths |-> 8 * SCORE_NORMALIZATION.OUTPUT_MAX, offset |-> 0]
    ELSE x

\* normalizeScore of the refactored core: clamp, then round
normalizeScore(q) == MathRound(ClampDouble(LinearMap(q)))

\* normalizeScore of app.js: round, then clamp
appNormalizeScore(q) == Max(0, Min(100, MathRound(LinearMap(q))))

callNormalizeScore ==
    /\ call.fn = "normalizeScore" /\ returned.fn = "none"
    /\ returned' = [fn |-> "normalizeScore", out |-> normalizeScore(call.rawScore)]
    /\ UNCHANGED call

callAppNormalizeScore ==
    /\ call.fn = "normalizeScore" /\ returned.fn = "none"
    /\ returned' = [fn  |-> "appNormalizeScore",
                    out |-> appNormalizeScore(call.rawScore)]
    /\ UNCHANGED call

(***************************************************************************)
(* Self-check of the constant tables                                       *)
(***************************************************************************)
\* 1.2, in tenths
SCORE_EMPHASIS_EXPONENT == 12

\* the keys of mbtiDescriptions
mbtiDescriptions ==
    {"INTJ", "INTP", "ENTJ", "ENTP", "INFJ", "INFP", "ENFJ", "ENFP",
     "ISTJ", "ISFJ", "ESTJ", "ESFJ", "ISTP", "ISFP", "ESTP", "ESFP"}

\* validateConstants(): checks.every(check => check.pass) over the five
\* checks, in the order of the source
validateConstants ==
    /\ /\ stackWeights[1] >= stackWeights[2]
       /\ stackWeights[2] >= stackWeights[3]
       /\ stackWeights[3] >= stackWeights[4]
    /\ SCORE_EMPHASIS_EXPONENT >= 10 /\ SCORE_EMPHASIS_EXPONENT <= 20
    /\ /\ SCORE_NORMALIZATION.MIN < SCORE_NORMALIZATION.MAX
       /\ SCORE_NORMALIZATION.OUTPUT_MIN < SCORE_NORMALIZATION.OUTPUT_MAX
    /\ Cardinality(FUNCTIONS) = 8
    /\ /\ Cardinality(DOMAIN COGNITIVE_STACKS) = 16
       /\ Cardinality(mbtiDescriptions) = 16

callValidateConstants ==
    /\ call.fn = "validateConstants" /\ returned.fn = "none"
    /\ returned' = [fn |-> "validateConstants", out |-> validateConstants]
    /\ UNCHANGED call

\* validateConstants() when COGNITIVE_STACKS is the given table: the fifth
\* check counts its keys and looks at nothing else of it
validateConstantsOn(table) ==
    /\ /\ stackWeights[1] >= stackWeights[2]
       /\ stackWeights[2] >= stackWeights[3]
       /\ stackWeights[3] >= stackWeights[4]
    /\ SCORE_EMPHASIS_EXPONENT >= 10 /\ SCORE_EMPHASIS_EXPONENT <= 20
    /\ /\ SCORE_NORMALIZATION.MIN < SCORE_NORMALIZATION.MAX
       /\ SCORE_NORMALIZATION.OUTPUT_MIN < SCORE_NORMALIZATION.OUTPUT_MAX
    /\ Cardinality(FUNCTIONS) = 8
    /\ /\ Cardinality({table[i][1] : i \in 1..Len(table)}) = 16
       /\ Cardinality(mbtiDescriptions) = 16

\* the last lines of the module: validateConstants() is called when
\* process.env.NODE_ENV is 'development', its value is dropped, and the
\* module is loaded in either case
startup(nodeEnv) ==
    /\ returned.fn = "none"
    /\ returned' =
          [fn  |-> "startup",
           out |-> [validated |-> nodeEnv = "development",
                    passed    |-> nodeEnv = "development"
                                      => validateConstantsOn(stackTable)]]
    /\ UNCHANGED call

(***************************************************************************)
(* Sequencer                                                               *)
(***************************************************************************)
maxAttempts == 1000

\* a[i] = a[j] without the exchange: the element a[i] is lost
SwapOverwrites(a, i, j) == [a EXCEPT ![i] = a[j]]

\* [shuffled[i], shuffled[j]] = [shuffled[j], shuffled[i]]
Swap(a, i, j) == [a EXCEPT ![i] = a[j], ![j] = a[i]]

\* the loop of fisherYatesShuffle from position i down to the second
\* element: j = Math.floor(Math.random() * (i + 1)) is any position up to i
RECURSIVE ShuffleFrom(_, _)
ShuffleFrom(a, i) ==
    IF i <= 1 THEN {a}
    ELSE UNION {ShuffleFrom(Swap(a, i, j), i - 1) : j \in 1..i}

\* the arrays that fisherYatesShuffle(array) can return
fisherYatesShuffle(array) == ShuffleFrom(array, Len(array))

\* the swaps made in the argument itself: it ends as the array returned
ArgumentAfterShuffleInPlace(array, returnedArray) == returnedArray

\* const shuffled = [...array]: the swaps act on a copy, and the argument of
\* fisherYatesShuffle keeps its elements in their order
ArgumentAfterShuffle(array, returnedArray) == array

\* the check started at i = 2: the first pair is never compared
hasConsecutiveSkipsFirstPair(array) ==
    \E i \in 3..Len(array) : array[i].type = array[i - 1].type

\* the loop of lines 50-56 over i = 1 .. length - 1 (here 2 .. Len)
hasConsecutive(array) ==
    \E i \in 2..Len(array) : array[i].type = array[i - 1].type

NoOutput == [path |-> "none", questions |-> <<>>]

\* const shuffled belongs to one iteration of the loop: after an iteration
\* that failed it is gone, and only that of the last iteration (the attempt
\* numbered maxAttempts - 1) is kept, for comparison with what the fallback
\* returns
KeptAfter(candidate, failedAttempt) ==
    IF failedAttempt = maxAttempts - 1 THEN candidate ELSE <<>>

\* an iteration that does not count
attemptShuffleNoCount ==
    /\ shuffleOutput.path = "none"
    /\ attempt < maxAttempts
    /\ \E candidate \in fisherYatesShuffle(shuffleInput) :
          IF ~hasConsecutive(candidate)
          THEN /\ shuffled' = candidate
               /\ shuffleOutput' = [path |-> "constrained",
                                    questions |-> candidate]
          ELSE /\ shuffled' = KeptAfter(candidate, attempt)
               /\ UNCHANGED shuffleOutput
    /\ UNCHANGED <<shuffleInput, attempt>>

\* one iteration of the loop: shuffle, check, return the permutation or count
attemptShuffle ==
    /\ shuffleOutput.path = "none"
    /\ attempt < maxAttempts
    /\ \E candidate \in fisherYatesShuffle(shuffleInput) :
          /\ shuffleInput' = ArgumentAfterShuffle(shuffleInput, candidate)
          /\ IF ~hasConsecutive(candidate)
             THEN /\ shuffled' = candidate
                  /\ shuffleOutput' = [path |-> "constrained",
                                       questions |-> candidate]
                  /\ UNCHANGED attempt
             ELSE /\ shuffled' = KeptAfter(candidate, attempt)
                  /\ attempt' = attempt + 1
                  /\ UNCHANGED shuffleOutput

\* the loop has ended: return fisherYatesShuffle(questions), a new shuffle
fallbackShuffle ==
    /\ shuffleOutput.path = "none"
    /\ ~(attempt < maxAttempts)
    /\ \E candidate \in fisherYatesShuffle(shuffleInput) :
          /\ shuffleInput' = ArgumentAfterShuffle(shuffleInput, candidate)
          /\ shuffleOutput' = [path |-> "fallback", questions |-> candidate]
    /\ UNCHANGED <<attempt, shuffled>>

\* const questions = shuffleQuestionsWithConstraints(originalQuestions): the
\* call has returned, its locals are gone, and window.onload renders the
\* first question
load ==
    /\ questions = <<>>
    /\ shuffleOutput.path # "none"
    /\ questions' = shuffleOutput.questions
    /\ rendered' = render(showResult, answers, rendered)
    /\ lastOp' = "load"
    /\ attempt' = 0
    /\ shuffled' = <<>>
    /\ UNCHANGED <<currentQuestion, answers, functionScores, showResult,
                   isProcessing, timer, lastRecorded, shuffleInput,
                   shuffleOutput>>

(***************************************************************************)
(* Specifications                                                          *)
(***************************************************************************)
ClassifierIdle ==
    /\ scoreVector = [f \in FUNCTIONS |-> 0]
    /\ stackTable = Entries
    /\ result = NoResult

PureIdle == call = NoCall /\ returned = NoReturn

\* the sequencer is not running
SequencerIdle ==
    /\ shuffleInput = <<>>
    /\ attempt = 0
    /\ shuffled = <<>>
    /\ shuffleOutput = NoOutput

Idle == ClassifierIdle /\ PureIdle /\ SequencerIdle

\* the session over the two-dimension bank, every Likert value offered
Init == SessionInit(originalQuestions) /\ Idle

Next ==
    \/ \E value \in LikertValues : handleAnswer(value)
    \/ handleAnswerIgnored
    \/ feedbackTimer
    \/ nextStep
    \/ goBack
    \/ goBackIgnored
    \/ reset

Spec ==
    Init /\ [][Next /\ UNCHANGED <<classifierVars, pureVars, sequencerVars>>]_vars

\* the same session with the event loop running every timer that is due:
\* a pending setTimeout callback is eventually called
SessionStep == Next /\ UNCHANGED <<classifierVars, pureVars, sequencerVars>>

SpecFair ==
    /\ Init
    /\ [][SessionStep]_vars
    /\ WF_vars(feedbackTimer
                 /\ UNCHANGED <<classifierVars, pureVars, sequencerVars>>)
    /\ WF_vars(nextStep
                 /\ UNCHANGED <<classifierVars, pureVars, sequencerVars>>)

\* the session over the single-dimension bank, where the accumulated score
\* grows past 8 and additions start to round; the respondent answers
\* "strongly disagree" or "strongly agree"
LongValues == {1, 5}

InitLong == SessionInit(longQuestions) /\ Idle

NextLong ==
    \/ \E value \in LongValues : handleAnswer(value)
    \/ handleAnswerIgnored
    \/ feedbackTimer
    \/ nextStep
    \/ goBack
    \/ goBackIgnored
    \/ reset

SpecLong ==
    InitLong
    /\ [][NextLong /\ UNCHANGED <<classifierVars, pureVars, sequencerVars>>]_vars

\* the session when window.handleAnswer is also called with integers outside
\* 1 .. 5
InvalidValues == ((1 - ValueMargin)..(5 + ValueMargin)) \ LikertValues

NextInvalid ==
    \/ \E value \in LongValues \cup InvalidValues : handleAnswer(value)
    \/ handleAnswerIgnored
    \/ feedbackTimer
    \/ nextStep
    \/ goBack
    \/ goBackIgnored
    \/ reset

SpecInvalid ==
    Init
    /\ [][NextInvalid
            /\ UNCHANGED <<classifierVars, pureVars, sequencerVars>>]_vars

\* the session over the bank of the display threshold; the respondent
\* answers 'disagree' or 'agree'
DisplayValues == {2, 4}

InitDisplay == SessionInit(displayQuestions) /\ Idle

NextDisplay ==
    \/ \E value \in DisplayValues : handleAnswer(value)
    \/ handleAnswerIgnored
    \/ feedbackTimer
    \/ nextStep
    \/ goBack
    \/ goBackIgnored
    \/ reset

SpecDisplay ==
    InitDisplay
    /\ [][NextDisplay
            /\ UNCHANGED <<classifierVars, pureVars, sequencerVars>>]_vars

\* the earlier app, whose reset copies the shared template, over the bank
\* of plain (not reversed) questions, which it scores as the later app does
NextTemplate ==
    \/ \E value \in LongValues : handleAnswer(value)
    \/ handleAnswerIgnored
    \/ feedbackTimer
    \/ nextStep
    \/ goBack
    \/ goBackIgnored
    \/ resetFromTemplate

SpecTemplate ==
    InitLong
    /\ [][NextTemplate
            /\ UNCHANGED <<classifierVars, pureVars, sequencerVars>>]_vars

\* the session over a bank with one malformed question
InitMalformed ==
    /\ \E k \in 1..BankSize : SessionInit(MalformedBank(k))
    /\ Idle

SpecMalformed ==
    InitMalformed
    /\ [][NextLong /\ UNCHANGED <<classifierVars, pureVars, sequencerVars>>]_vars

\* the score vectors classified: those with all 8 keys, entries in
\* -MaxScore .. MaxScore and at most MaxNonZero entries other than 0
DenseVectors ==
    {v \in [FUNCTIONS -> (-MaxScore)..MaxScore] :
        Cardinality({f \in FUNCTIONS : v[f] # 0}) <= MaxNonZero}

\* every dimension holds the same score
UniformVectors == {[f \in FUNCTIONS |-> c] : c \in (-MaxScore)..MaxScore}

\* objects that hold a key for the non-zero entries only, so that some of
\* the 8 dimensions are missing
PartialVectors ==
    {[f \in {g \in FUNCTIONS : v[g] # 0} |-> v[f]] : v \in DenseVectors}

\* mockScores of the smoke test
mockScores ==
    [Ni |-> 15, Ne |-> -5, Si |-> -10, Se |-> -15,
     Ti |-> 10, Te |-> 5, Fi |-> -5, Fe |-> 0]

\* generateMockScores with the scores of the dominant and the tertiary
\* function exchanged
generateMockScoresSwapped(targetType) ==
    LET stack == COGNITIVE_STACKS[targetType]
    IN  [f \in FUNCTIONS |->
            IF f = stack[4] THEN -5
            ELSE IF f = stack[3] THEN 15
            ELSE IF f = stack[2] THEN 10
            ELSE IF f = stack[1] THEN 5
            ELSE 0]

\* generateMockScores(targetType) for a type of the stack table: all 8
\* dimensions 0, then 15, 10, 5 and -5 assigned down the stack (a later
\* assignment would overwrite an earlier one)
generateMockScores(targetType) ==
    LET stack == COGNITIVE_STACKS[targetType]
    IN  [f \in FUNCTIONS |->
            IF f = stack[4] THEN -5
            ELSE IF f = stack[3] THEN 5
            ELSE IF f = stack[2] THEN 10
            ELSE IF f = stack[1] THEN 15
            ELSE 0]

MockVectors ==
    {generateMockScores(targetType) : targetType \in DOMAIN COGNITIVE_STACKS}

ScoreVectors ==
    DenseVectors \cup UniformVectors \cup PartialVectors \cup {mockScores}
        \cup MockVectors

InitClassify ==
    /\ SessionInit(originalQuestions)
    /\ scoreVector \in ScoreVectors
    /\ stackTable = Entries
    /\ result = NoResult
    /\ PureIdle
    /\ SequencerIdle

NextClassify == classify /\ UNCHANGED <<sessionVars, pureVars, sequencerVars>>

SpecClassify == InitClassify /\ [][NextClassify]_vars

\* both versions of the core on the same input: a Likert value with a
\* reversal flag for the two calculateScore, or a score vector for the two
\* determineMBTIType
ValidScoreCalls ==
    {[fn |-> "calculateScore", value |-> [kind |-> "integer", n |-> v],
      isReverse |-> r, rawScore |-> 0] : v \in LikertValues, r \in BOOLEAN}

ClassifyCall == [NoCall EXCEPT !.fn = "determineMBTIType"]

\* the score vectors handed to both classifiers: those of ScoreVectors with
\* at most CoresMaxNonZero entries other than 0, with or without the keys of
\* the entries that are 0, and the mock vectors
CoreVectors ==
    {v \in ScoreVectors :
        Cardinality({f \in DOMAIN v : v[f] # 0}) <= CoresMaxNonZero}
    \cup MockVectors \cup {mockScores}

InitCores ==
    /\ SessionInit(originalQuestions)
    /\ call \in ValidScoreCalls \cup {ClassifyCall}
    /\ returned = NoReturn
    /\ scoreVector \in IF call = ClassifyCall THEN CoreVectors
                       ELSE {[f \in FUNCTIONS |-> 0]}
    /\ stackTable = Entries
    /\ result = NoResult
    /\ SequencerIdle

NextCores ==
    \/ /\ \/ callCalculateScore
          \/ callCoreCalculateScore
          \/ coreClassify
       /\ UNCHANGED <<sessionVars, classifierVars, sequencerVars>>
    \/ /\ call = ClassifyCall
       /\ classify
       /\ UNCHANGED <<sessionVars, pureVars, sequencerVars>>

SpecCores == InitCores /\ [][NextCores]_vars

\* the tables configured: the shipped one, one whose first stack lacks its
\* inferior function, and one without its last category
StackTables ==
    {Entries,
     [Entries EXCEPT ![1] = <<Entries[1][1], SubSeq(Entries[1][2], 1, 3)>>],
     SubSeq(Entries, 1, Len(Entries) - 1)}

NodeEnvs == {"development", "production"}

InitTables ==
    /\ SessionInit(originalQuestions)
    /\ scoreVector \in UniformVectors \cup MockVectors
    /\ stackTable \in StackTables
    /\ result = NoResult
    /\ PureIdle
    /\ SequencerIdle

NextTables ==
    \/ /\ \E nodeEnv \in NodeEnvs : startup(nodeEnv)
       /\ UNCHANGED <<sessionVars, classifierVars, sequencerVars>>
    \/ classifyWithTable /\ UNCHANGED <<sessionVars, pureVars, sequencerVars>>

SpecTables == InitTables /\ [][NextTables]_vars

\* calculateScore applied to JavaScript values with either reversal flag
ScoreCalls ==
    {[fn |-> "calculateScore", value |-> v, isReverse |-> r, rawScore |-> 0] :
        v \in JsValues, r \in BOOLEAN}

\* the raw scores, in quarters: -RawBound .. RawBound, and -999 and 999
RawScores == ((-4 * RawBound)..(4 * RawBound)) \cup {-4 * 999, 4 * 999}

NormalizeCalls ==
    {[fn |-> "normalizeScore", value |-> NoCall.value, isReverse |-> FALSE,
      rawScore |-> q] : q \in RawScores}

\* validateConstants takes no argument
ValidateCalls ==
    {[fn |-> "validateConstants", value |-> NoCall.value, isReverse |-> FALSE,
      rawScore |-> 0]}

InitPure ==
    /\ SessionInit(originalQuestions)
    /\ ClassifierIdle
    /\ SequencerIdle
    /\ call \in ScoreCalls \cup NormalizeCalls \cup ValidateCalls
    /\ returned = NoReturn

NextPure ==
    /\ \/ callCalculateScore
       \/ callCoreCalculateScore
       \/ callNormalizeScore
       \/ callAppNormalizeScore
       \/ callValidateConstants
    /\ UNCHANGED <<sessionVars, classifierVars, sequencerVars>>

SpecPure == InitPure /\ [][NextPure]_vars

\* a bank for the sequencer: the first k questions score Ni, the others Te
\* and Fi in turn
ShuffleBank(k) ==
    [i \in 1..ShuffleBankSize |->
        [id      |-> i,
         type    |-> IF i <= k THEN "Ni"
                     ELSE IF (i - k) % 2 = 1 THEN "Te" ELSE "Fi",
         reverse |-> FALSE]]

ShuffleBanks == {ShuffleBank(k) : k \in 0..ShuffleBankSize}

InitShuffle ==
    /\ SessionInit(originalQuestions)
    /\ ClassifierIdle
    /\ PureIdle
    /\ shuffleInput \in ShuffleBanks
    /\ attempt = 0
    /\ shuffled = <<>>
    /\ shuffleOutput = NoOutput

NextShuffle ==
    /\ \/ attemptShuffle
       \/ fallbackShuffle
    /\ UNCHANGED <<sessionVars, classifierVars, pureVars>>

\* the loop runs to its end: every iteration is a step of a running call
SpecShuffle == InitShuffle /\ [][NextShuffle]_vars /\ WF_vars(NextShuffle)

\* the module from its first line: the bank is shuffled, the session is
\* loaded with the sequence returned, and the handlers run on it
InitLoad ==
    /\ questions = <<>>
    /\ currentQuestion = createDefaultState.currentQuestion
    /\ answers = createDefaultState.answers
    /\ functionScores = createDefaultState.functionScores
    /\ showResult = createDefaultState.showResult
    /\ isProcessing = FALSE
    /\ timer = NoTimer
    /\ rendered = NoRender
    /\ lastOp = "import"
    /\ lastRecorded = 0
    /\ ClassifierIdle
    /\ PureIdle
    /\ shuffleInput = originalQuestions
    /\ attempt = 0
    /\ shuffled = <<>>
    /\ shuffleOutput = NoOutput

NextLoad ==
    \/ /\ \/ attemptShuffle
          \/ fallbackShuffle
       /\ UNCHANGED <<sessionVars, classifierVars, pureVars>>
    \/ load /\ UNCHANGED <<classifierVars, pureVars>>
    \/ /\ questions # <<>>
       /\ NextLong
       /\ UNCHANGED <<classifierVars, pureVars, sequencerVars>>

SpecLoad == InitLoad /\ [][NextLoad]_vars

(***************************************************************************)
(* Session claims                                                          *)
(***************************************************************************)
\* the sum, taken in question order, of the item scores of the recorded
\* answers to the first n questions that score dimension f
RECURSIVE SumOfAnswers(_, _)
SumOfAnswers(f, n) ==
    IF n = 0 THEN Zero
    ELSE LET q == questions[n]
         IN  IF q.type = f /\ Answered(q.id)
             THEN FAdd(SumOfAnswers(f, n - 1),
                       calculateScore(answers[q.id].value,
                                      answers[q.id].isReverse))
             ELSE SumOfAnswers(f, n - 1)

\* C1: in every state reached by handleAnswer, goBack and reset, each of the
\* 8 dimension scores equals the sum of calculateScore over the recorded
\* answers whose question has that dimension.
ScoreIsSumOfAnswers ==
    \A f \in FUNCTIONS : functionScores[f] = SumOfAnswers(f, Len(questions))

\* C2: from any state, recording v1 and then v2 for the current question
\* gives its dimension the score that recording v2 alone gives.
RevisionReplace ==
    \A v1 \in LikertValues : \A v2 \in LikertValues :
        LET q      == CurrentQuestion
            first  == RecordAnswer(answers, functionScores, q, v1)
            second == RecordAnswer(first.answers, first.functionScores, q, v2)
            direct == RecordAnswer(answers, functionScores, q, v2)
        IN  second.functionScores[q.type] = direct.functionScores[q.type]

\* C3: a handleAnswer step that records the (question, value) pair that the
\* previous recording recorded leaves the score vector and the answer set as
\* they were after that first recording.
RevisionIdempotent ==
    [][lastOp' = "answerRepeated" =>
         (functionScores' = functionScores /\ answers' = answers)]_vars

\* the same value was recorded again on top of a score large enough for the
\* subtraction and the addition to round
RevisionIdempotentWitness ==
    /\ lastOp = "answerRepeated"
    /\ answers[CurrentQuestion.id].value = 5
    /\ ~FLess(functionScores["Ni"], FAdd(FAdd(Pow2, Pow2), FAdd(Pow2, Pow2)))

\* C4: right after reset() the answer set is empty, all 8 scores are 0,
\* currentQuestion is 0 and showResult is false.
ResetRestoresDefault ==
    lastOp = "reset" =>
        /\ answers = [i \in {} |-> NoAnswer]
        /\ \A f \in FUNCTIONS : functionScores[f] = Zero
        /\ currentQuestion = 0
        /\ showResult = FALSE

\* reset was called while the transition of a recorded answer was pending
ResetRestoresDefaultWitness == lastOp = "reset" /\ isProcessing

\* C5: a handleAnswer call made while a transition is in progress changes
\* neither the answers nor the scores.
ReentrantAnswerIgnored ==
    [][(isProcessing /\ lastOp' \in {"answer", "answerRepeated", "answerIgnored"})
         => (answers' = answers /\ functionScores' = functionScores)]_vars

\* a call was ignored while the timers of the accepted answer were pending
ReentrantAnswerIgnoredWitness ==
    /\ lastOp = "answerIgnored"
    /\ isProcessing
    /\ timer.stage = "transition"
    /\ answers # [i \in {} |-> NoAnswer]

\* C24: the answer set holds at most one record per question id; an
\* accepted answer stores its value and the reversal flag of its question
\* under the id of that question and leaves the other records alone; no
\* other step but reset changes a record.
OneRecordPerQuestion ==
    /\ [](/\ Cardinality(DOMAIN answers) <= Len(questions)
          /\ \A id \in DOMAIN answers :
                \E i \in 1..Len(questions) :
                    /\ questions[i].id = id
                    /\ answers[id].isReverse = questions[i].reverse
                    /\ answers[id].value \in LikertValues)
    /\ [][\A value \in LikertValues :
            handleAnswer(value) =>
                /\ DOMAIN answers' = DOMAIN answers \cup {CurrentQuestion.id}
                /\ answers'[CurrentQuestion.id] =
                        [value |-> value, isReverse |-> CurrentQuestion.reverse]
                /\ \A id \in DOMAIN answers \ {CurrentQuestion.id} :
                        answers'[id] = answers[id]]_vars
    /\ [][answers' # answers => lastOp' \in {"answer", "reset"}]_vars

\* the record of the reversed question 2 was written after question 3 had
\* been recorded, with a value other than that of question 3
OneRecordPerQuestionWitness ==
    /\ lastOp = "answer"
    /\ lastRecorded = 2
    /\ DOMAIN answers = {1, 2, 3}
    /\ answers[2].isReverse
    /\ answers[2].value # answers[3].value

\* x * n, exactly, for a magnitude x and a small n
TimesExact(x, n) ==
    LET lo == x[2] * n
    IN  <<x[1] * n + (lo \div LIMB), lo % LIMB>>

FAbs(x) == IF x[1] < 0 THEN FNeg(x) ELSE x

FLeq(x, y) == ~FLess(y, x)

\* number of questions of the sequence that score dimension f
QuestionsOf(f) == Cardinality({i \in 1..Len(questions) : questions[i].type = f})

\* the double n * Math.pow(2, 1.2)
PowerBound(n) == FRound(TimesExact(Pow2, n))

\* the largest count of units of 2^-50 that does not exceed n * 2^1.2, for
\* n <= 10.  Math.pow(2, 1.2) takes the double 1.2, which lies below 6/5,
\* and 2^(6/5) = Pow2 + 0.2942... units; 29/100 is used for the excess
RealPowerBound(n) == ExactAdd(TimesExact(Pow2, n), <<0, (29 * n) \div 100>>)

\* C28: in every reachable state |functionScores[d]| is at most (number of
\* questions of dimension d) * 2^1.2, both as the double product and as the
\* real number, and with up to 8 questions per dimension it lies within the
\* normalization range -20 .. 20, where normalizeScore does not clamp.
RawScoresBounded ==
    \A f \in FUNCTIONS :
        /\ FLeq(FAbs(functionScores[f]), PowerBound(QuestionsOf(f)))
        /\ FLeq(FAbs(functionScores[f]), RealPowerBound(QuestionsOf(f)))
        /\ QuestionsOf(f) <= 8 =>
              /\ FLeq(FAbs(functionScores[f]),
                      TimesExact(One, SCORE_NORMALIZATION.MAX))
              /\ FLeq(FAbs(functionScores[f]),
                      TimesExact(One, -SCORE_NORMALIZATION.MIN))

\* every question of the single-dimension bank is answered 'strongly
\* agree' and the score has reached the bound
RawScoresBoundedWitness ==
    /\ DOMAIN answers = 1..Len(questions)
    /\ \A id \in DOMAIN answers : answers[id].value = 5
    /\ QuestionsOf("Ni") = Len(questions)
    /\ functionScores["Ni"] = PowerBound(QuestionsOf("Ni"))
    /\ FLess(TimesExact(One, 16), functionScores["Ni"])

\* C21: while fewer than 8 answers are recorded the page shows no
\* classification, neither the provisional type in the side panel nor the
\* final result.
NoClassificationBelowThreshold ==
    Cardinality(DOMAIN answers) < MIN_ANSWERS_FOR_PROVISIONAL =>
        /\ rendered.summary # "provisional"
        /\ rendered.app # "result"

\* C25: the bank is never mutated: the array handed to
\* shuffleQuestionsWithConstraints keeps its elements in their order
\* through every shuffle and every later step, and once the session is
\* loaded no handleAnswer, goBack, reset or timer changes a question record
\* or the order of the shuffled sequence
BankNeverMutated ==
    /\ [][shuffleInput' = shuffleInput]_vars
    /\ [](shuffleInput = originalQuestions)
    /\ [][questions # <<>> => questions' = questions]_vars
    /\ [](questions # <<>> => questions = shuffleOutput.questions)

\* the sequencer returned an order other than that of the bank, and the
\* session loaded with it has answered, gone back and been reset
BankNeverMutatedWitness ==
    /\ questions # <<>>
    /\ questions # shuffleInput
    /\ lastOp = "reset"
    /\ currentQuestion = 0
    /\ isProcessing

\* the step on which window.handleAnswer accepts a call
AcceptStep == ~isProcessing /\ isProcessing'

\* the step on which the handler is released
ReleaseStep == isProcessing /\ ~isProcessing'

ResetInFlightKeepsInitialState ==
    (lastOp # "load" /\ lastRecorded = 0) =>
        /\ currentQuestion = createDefaultState.currentQuestion
        /\ showResult = createDefaultState.showResult
        /\ answers = createDefaultState.answers

\* C32: every question at a position before currentQuestion has a recorded
\* answer, and showResult is true only if every question has one
AnsweredPrefix ==
    /\ \A i \in 1..currentQuestion : Answered(questions[i].id)
    /\ showResult => \A i \in 1..Len(questions) : Answered(questions[i].id)

\* C33: the position stays within the sequence, 0 <= currentQuestion <=
\* questions.length - 1; a goBack at the first question changes nothing of
\* the session, and the transition of an answer to the last question leaves
\* the position where it is
PositionInBounds ==
    /\ [](0 <= currentQuestion /\ currentQuestion <= Len(questions) - 1)
    /\ [][(currentQuestion = 0 /\ lastOp' \in {"goBack", "goBackIgnored"}) =>
            /\ lastOp' = "goBackIgnored"
            /\ UNCHANGED <<questions, currentQuestion, answers, functionScores,
                           showResult, isProcessing, timer>>]_vars
    /\ [][(AcceptStep /\ currentQuestion = Len(questions) - 1) =>
            timer'.callback = "showResult"]_vars
    /\ [][(lastOp' = "nextStep" /\ timer.callback = "showResult") =>
            currentQuestion' = currentQuestion]_vars

\* the respondent went forward, came back to the first question and called
\* goBack there
PositionInBoundsWitness ==
    /\ lastOp = "goBackIgnored"
    /\ currentQuestion = 0
    /\ ~isProcessing
    /\ Cardinality(DOMAIN answers) = Len(questions)
    /\ showResult

\* C34: a goBack call made while a transition is in progress or at the
\* first question changes nothing of the session; one that takes effect is
\* made at a later question with no transition in progress, decreases
\* currentQuestion by exactly one and leaves answers, functionScores and
\* showResult unchanged
GoBackFrame ==
    /\ [][(lastOp' \in {"goBack", "goBackIgnored"}
             /\ (isProcessing \/ currentQuestion = 0)) =>
            /\ lastOp' = "goBackIgnored"
            /\ UNCHANGED <<questions, currentQuestion, answers, functionScores,
                           showResult, isProcessing, timer>>]_vars
    /\ [][lastOp' = "goBack" =>
            /\ ~isProcessing /\ currentQuestion > 0
            /\ currentQuestion' = currentQuestion - 1
            /\ UNCHANGED <<questions, answers, functionScores, showResult,
                           isProcessing, timer>>]_vars

\* goBack took effect from the result screen of a complete session
GoBackFrameWitness ==
    /\ lastOp = "goBack"
    /\ showResult
    /\ currentQuestion = Len(questions) - 2
    /\ Cardinality(DOMAIN answers) = Len(questions)

\* C35: an accepted handleAnswer for question q changes functionScores only
\* at q.type and the answers only at q.id, and leaves currentQuestion and
\* showResult as they are; these two change only when the transition
\* callback runs, or by goBack or reset
HandleAnswerFrame ==
    /\ [][AcceptStep =>
            LET q == CurrentQuestion
            IN  /\ DOMAIN functionScores' = DOMAIN functionScores
                /\ \A f \in DOMAIN functionScores :
                      f # q.type => functionScores'[f] = functionScores[f]
                /\ DOMAIN answers' = (DOMAIN answers) \cup {q.id}
                /\ \A id \in DOMAIN answers :
                      id # q.id => answers'[id] = answers[id]
                /\ currentQuestion' = currentQuestion
                /\ showResult' = showResult
                /\ questions' = questions]_vars
    /\ [][(currentQuestion' # currentQuestion \/ showResult' # showResult) =>
            lastOp' \in {"nextStep", "goBack", "reset"}]_vars

\* an answer to the second question was accepted while answers to both
\* dimensions were on record, and its transition is still pending
HandleAnswerFrameWitness ==
    /\ lastOp = "answer"
    /\ isProcessing
    /\ timer.stage = "feedback"
    /\ currentQuestion = 1
    /\ Cardinality(DOMAIN answers) = Len(questions)

\* C36: in the app whose reset copies the default-state object, right after
\* a reset no answer is recorded and all eight scores are 0
TemplateResetEmpties ==
    lastOp = "reset" =>
        /\ answers = createDefaultState.answers
        /\ \A f \in FUNCTIONS : functionScores[f] = Zero

\* C22: answering a question whose dimension is not one of the 8 known ones
\* raises no exception, leaves the eight dimension scores as the only keys
\* and finite, and does not leave the handler locked with no timer pending
\* to release it
UnknownDimensionHarmless ==
    /\ lastOp # "answerThrew"
    /\ DOMAIN functionScores = FUNCTIONS
    /\ \A f \in DOMAIN functionScores : functionScores[f] # NaN
    /\ isProcessing => timer # NoTimer

(***************************************************************************)
(* Classifier claims                                                       *)
(***************************************************************************)
Types == {TypeOrder[i] : i \in 1..Len(TypeOrder)}

\* position of a type in the enumeration of the stack table
TypeIndex(typeName) == CHOOSE i \in 1..Len(TypeOrder) : TypeOrder[i] = typeName

Classified == result # NoResult

\* C6: the total of the returned type (type, top2[0]) is >= the total of
\* every category, and the total of the runner-up (top2[1]) is >= the total
\* of every category other than the top one.
TopTwoAreMaxima ==
    Classified =>
        LET top      == result.top2[1]
            runnerUp == result.top2[2]
            total    == result.typeScores
        IN  /\ result.type = top
            /\ runnerUp # top
            /\ \A t \in Types : total[top] >= total[t]
            /\ \A t \in Types \ {top} : total[runnerUp] >= total[t]

\* three different totals: top above runner-up above some other category,
\* with a negative total among them
TopTwoAreMaximaWitness ==
    /\ Classified
    /\ result.typeScores[result.top2[1]] > result.typeScores[result.top2[2]]
    /\ \E t \in Types :
          /\ result.typeScores[t] < result.typeScores[result.top2[2]]
          /\ result.typeScores[t] < 0

\* C7: typeScores holds one total for each of the 16 categories, and for a
\* vector that holds all 8 dimensions each total is 4 * s0 + 2 * s1 + 1 * s2
\* + 0.5 * s3 over the category's stack (here doubled: 8, 4, 2, 1).
TotalsAreWeightedSums ==
    Classified =>
        /\ DOMAIN result.typeScores = Types
        /\ Cardinality(DOMAIN result.typeScores) = 16
        /\ DOMAIN scoreVector = FUNCTIONS =>
              \A t \in Types :
                  LET stack == COGNITIVE_STACKS[t]
                  IN  result.typeScores[t] =
                          scoreVector[stack[1]] * 8 + scoreVector[stack[2]] * 4
                        + scoreVector[stack[3]] * 2 + scoreVector[stack[4]]

\* a vector whose INTJ stack holds four non-zero scores was classified
TotalsAreWeightedSumsWitness ==
    /\ Classified
    /\ DOMAIN scoreVector = FUNCTIONS
    /\ \A i \in 1..4 : scoreVector[COGNITIVE_STACKS["INTJ"][i]] # 0

AllTotalsEqual ==
    \A t \in Types : \A u \in Types :
        result.typeScores[t] = result.typeScores[u]

\* C8: the confidence is an integer with 0 <= confidence <= 100, and it is
\* 0 when all category totals are equal.
ConfidenceBounds ==
    Classified =>
        /\ result.confidence \in 0..100
        /\ AllTotalsEqual => result.confidence = 0

\* all 16 totals are equal and not zero
ConfidenceBoundsWitness ==
    /\ Classified
    /\ AllTotalsEqual
    /\ result.typeScores["INTJ"] # 0

\* C9: among categories of equal total the one defined earlier in the stack
\* table is ranked first: the top type is the earliest of the categories
\* with the largest total, the runner-up the earliest of the others with the
\* largest total among them.
TiesInEnumerationOrder ==
    Classified =>
        LET top      == result.top2[1]
            runnerUp == result.top2[2]
            total    == result.typeScores
        IN  /\ \A t \in Types \ {top} :
                  total[t] = total[top] => TypeIndex(top) < TypeIndex(t)
            /\ \A t \in Types \ {top, runnerUp} :
                  total[t] = total[runnerUp] =>
                      TypeIndex(runnerUp) < TypeIndex(t)

\* three or more categories share the largest total, others lie below it
TiesInEnumerationOrderWitness ==
    /\ Classified
    /\ result.typeScores[result.top2[1]] = result.typeScores[result.top2[2]]
    /\ \E t \in Types \ {result.top2[1], result.top2[2]} :
          result.typeScores[t] = result.typeScores[result.top2[1]]
    /\ \E t \in Types : result.typeScores[t] < result.typeScores[result.top2[1]]

\* the vector with every missing dimension set to 0
ZeroFilled(scores) ==
    [f \in FUNCTIONS |-> IF f \in DOMAIN scores THEN scores[f] ELSE 0]

\* C10: for a vector with missing dimension keys the classifier returns a
\* complete result, which is the result for the vector with each missing
\* dimension set to 0.
MissingKeysCountZero ==
    Classified =>
        /\ result.type \in Types
        /\ result.top2[1] \in Types /\ result.top2[2] \in Types
        /\ result.confidence \in 0..100
        /\ DOMAIN result.typeScores = Types
        /\ result = determineMBTIType(ZeroFilled(scoreVector))

\* a vector that lacks some dimensions and holds others was classified, and
\* a type whose stack has a missing dimension won
MissingKeysCountZeroWitness ==
    /\ Classified
    /\ DOMAIN scoreVector # FUNCTIONS
    /\ DOMAIN scoreVector # {}
    /\ \E i \in 1..4 :
          COGNITIVE_STACKS[result.type][i] \notin DOMAIN scoreVector

\* C11: for the mock vector of the smoke test the returned type is one of the
\* 16 four-letter labels, its total strictly exceeds the total of every other
\* category, and the confidence lies in 0 .. 100.
MockVectorHasStrictWinner ==
    (Classified /\ scoreVector = mockScores) =>
        /\ result.type \in Types
        /\ \A t \in Types \ {result.type} :
              result.typeScores[result.type] > result.typeScores[t]
        /\ result.confidence \in 0..100

\* the mock vector was classified: INFJ with 62.5 against 57.5 for INTJ
MockVectorHasStrictWinnerWitness ==
    /\ Classified
    /\ scoreVector = mockScores
    /\ result.type = "INFJ"
    /\ result.typeScores["INFJ"] = 125
    /\ result.top2[2] = "INTJ"
    /\ result.confidence = 4

\* C27: for each of the 16 types T the classifier returns T for
\* generateMockScores(T), and the total of T strictly exceeds the total of
\* every other category.
MockScoresRoundTrip ==
    Classified =>
        \A targetType \in Types :
            scoreVector = generateMockScores(targetType) =>
                /\ result.type = targetType
                /\ \A t \in Types \ {targetType} :
                      result.typeScores[targetType] > result.typeScores[t]

\* the vector generated for the last type of the table was classified as
\* that type: 82.5 for ESFP
MockScoresRoundTripWitness ==
    /\ Classified
    /\ scoreVector = generateMockScores("ESFP")
    /\ result.type = "ESFP"
    /\ result.typeScores["ESFP"] = 165

\* exactly 16 categories of 4 dimensions each
WellFormedTable(table) ==
    /\ Cardinality({table[i][1] : i \in 1..Len(table)}) = 16
    /\ \A i \in 1..Len(table) : Len(table[i][2]) = 4

\* C26: a table that does not define exactly 16 categories of 4 dimensions
\* each is rejected when the module is loaded: its validation runs and
\* fails, and no classification returns a result from that table
MalformedTableRejected ==
    ~WellFormedTable(stackTable) =>
        /\ returned.fn = "startup" =>
              /\ returned.out.validated
              /\ ~returned.out.passed
        /\ result = NoResult

(***************************************************************************)
(* Scorer and normalizer claims                                            *)
(***************************************************************************)
ScoredValid(fn) ==
    /\ returned.fn = fn
    /\ isValidJsLikertValue(call.value)

\* the order of two results of calculateScore of core.js: Math.pow(x, 1.2)
\* grows with x
CoreLess(a, b) == a.sign * a.absBase < b.sign * b.absBase

CoreNegated(a) == [a EXCEPT !.sign = -a.sign]

\* C12: for non-reversed items score(5) > score(4) > score(3) = 0 > score(2)
\* > score(1), and score(v) = -score(6 - v) for every v in 1 .. 5; stated of
\* the value v that was scored against v - 1 and 6 - v, for both versions
\* of calculateScore.
ScoreMonotoneAntisymmetric ==
    /\ (ScoredValid("calculateScore") /\ ~call.isReverse) =>
          LET v   == call.value.n
              out == returned.out.score
          IN  /\ v > 1 => FLess(calculateScore(v - 1, FALSE), out)
              /\ v = 3 => out = Zero
              /\ out = FNeg(calculateScore(6 - v, FALSE))
    /\ (ScoredValid("coreCalculateScore") /\ ~call.isReverse) =>
          LET v   == call.value
              out == returned.out
          IN  /\ v.n > 1 =>
                    CoreLess(coreCalculateScore([v EXCEPT !.n = v.n - 1], FALSE),
                             out)
              /\ v.n = 3 => out.sign = 0
              /\ out = CoreNegated(
                          coreCalculateScore([v EXCEPT !.n = 6 - v.n], FALSE))

\* 'strongly agree' on a plain item scored 2^1.2
ScoreMonotoneAntisymmetricWitness ==
    /\ ScoredValid("calculateScore")
    /\ ~call.isReverse
    /\ call.value.n = 5
    /\ returned.out.score = Pow2

\* C13: score(v, true) = score(6 - v, false) for every v in 1 .. 5, and a
\* reversed 5 scores below 0; for both versions of calculateScore.
ReversalInversion ==
    /\ (ScoredValid("calculateScore") /\ call.isReverse) =>
          LET v   == call.value.n
              out == returned.out.score
          IN  /\ out = calculateScore(6 - v, FALSE)
              /\ v = 5 => FLess(out, Zero)
    /\ (ScoredValid("coreCalculateScore") /\ call.isReverse) =>
          LET v   == call.value
              out == returned.out
          IN  /\ out = coreCalculateScore([v EXCEPT !.n = 6 - v.n], FALSE)
              /\ v.n = 5 => out.sign < 0

\* 'strongly agree' on a reversed item scored -(2^1.2)
ReversalInversionWitness ==
    /\ ScoredValid("calculateScore")
    /\ call.isReverse
    /\ call.value.n = 5
    /\ returned.out.score = FNeg(Pow2)

\* C14: calculateScore given a value that is not an integer in 1 .. 5, with
\* either reversal flag, reports the error and returns exactly 0.
InvalidValueScoresZero ==
    /\ (returned.fn = "calculateScore" /\ ~isValidJsLikertValue(call.value))
          => (returned.out.reported /\ returned.out.score = Zero)
    /\ (returned.fn = "coreCalculateScore"
            /\ ~isValidJsLikertValue(call.value))
          => /\ returned.out.reported
             /\ returned.out.kind = "number"
             /\ returned.out.sign = 0

\* C15: handleAnswer called with a value that is not an integer in 1 .. 5
\* records no answer for the question and leaves every score unchanged.
InvalidAnswerNotRecorded ==
    [][(\E value \in InvalidValues : handleAnswer(value)) =>
          (answers' = answers /\ functionScores' = functionScores)]_vars

\* C16: normalizeScore(raw) is round(((raw + 20) / 40) * 100) clamped to
\* 0 .. 100, an integer in 0 .. 100, with normalize(-20) = 0,
\* normalize(0) = 50, normalize(20) = 100, normalize(-999) = 0 and
\* normalize(999) = 100; for both versions of normalizeScore.
NormalizeIsRoundedLinearMap ==
    returned.fn \in {"normalizeScore", "appNormalizeScore"} =>
        LET q       == call.rawScore
            rounded == (5 * (q + 80) + 4) \div 8
        IN  /\ returned.out \in 0..100
            /\ returned.out = Max(0, Min(100, rounded))
            /\ q = -80 => returned.out = 0
            /\ q = 0 => returned.out = 50
            /\ q = 80 => returned.out = 100
            /\ q = -4 * 999 => returned.out = 0
            /\ q = 4 * 999 => returned.out = 100

\* C37: the two normalizers agree on every raw score: what normalizeScore
\* of app.js (round, then clamp) returns is what normalizeScore of the core
\* (clamp, then round) returns for the same raw score, and conversely
NormalizersAgree ==
    /\ returned.fn = "appNormalizeScore" =>
          returned.out = normalizeScore(call.rawScore)
    /\ returned.fn = "normalizeScore" =>
          returned.out = appNormalizeScore(call.rawScore)

\* the raw score 20.25: app.js rounds 100.625 to 101 and clamps it to 100
NormalizersAgreeWitness ==
    /\ returned.fn = "appNormalizeScore"
    /\ call.rawScore = 4 * SCORE_NORMALIZATION.MAX + 1
    /\ MathRound(LinearMap(call.rawScore)) = 101
    /\ returned.out = 100

\* C38: the two versions of the core agree on valid input: for a value in
\* 1 .. 5 and either reversal flag what one calculateScore returned is the
\* number the other returns, and for a score vector the two
\* determineMBTIType return the same type, top2, confidence and typeScores
CoresAgree ==
    /\ ScoredValid("calculateScore") =>
          /\ ~returned.out.reported
          /\ returned.out.score =
                CoreScoreValue(coreCalculateScore(call.value, call.isReverse))
    /\ ScoredValid("coreCalculateScore") =>
          CoreScoreValue(returned.out) =
              calculateScoreJs(call.value, call.isReverse).score
    /\ (returned.fn = "coreDetermineMBTIType" /\ Classified) =>
          /\ returned.out.type = result.type
          /\ returned.out.top2 = result.top2
          /\ returned.out.confidence = result.confidence
          /\ returned.out.typeScores = result.typeScores

\* both classifiers have returned for a vector that lacks keys and whose
\* leading totals differ
CoresAgreeWitness ==
    /\ returned.fn = "coreDetermineMBTIType"
    /\ Classified
    /\ DOMAIN scoreVector # FUNCTIONS
    /\ result.confidence > 0
    /\ result.confidence < 100

\* C39: for every score vector and the shipped stack table the result of
\* either determineMBTIType is consistent in itself: top2[0] is the type,
\* top2[1] is another category, and both are keys of typeScores
ResultConsistent ==
    /\ Classified =>
          /\ result.top2[1] = result.type
          /\ result.top2[2] # result.top2[1]
          /\ {result.top2[1], result.top2[2]} \subseteq DOMAIN result.typeScores
    /\ returned.fn = "coreDetermineMBTIType" =>
          /\ returned.out.top2[1] = returned.out.type
          /\ returned.out.top2[2] # returned.out.top2[1]
          /\ {returned.out.top2[1], returned.out.top2[2]}
                \subseteq DOMAIN returned.out.typeScores

\* both classifiers have returned for the all-zero vector, where the 16
\* totals are equal and the two names come from the order of the table
ResultConsistentWitness ==
    /\ Classified
    /\ returned.fn = "coreDetermineMBTIType"
    /\ \A f \in DOMAIN scoreVector : scoreVector[f] = 0
    /\ result.top2 = <<TypeOrder[1], TypeOrder[2]>>
    /\ returned.out.top2 = <<TypeOrder[1], TypeOrder[2]>>

\* C23: the shipped tables are well-formed: 8 dimensions, 16 categories,
\* every stack holds exactly 4 of the 8 dimensions, the positional weights
\* 4, 2, 1, 0.5 (here doubled) decrease strictly, and validateConstants()
\* returns true.
ConstantTablesWellFormed ==
    /\ Cardinality(FUNCTIONS) = 8
    /\ Cardinality(DOMAIN COGNITIVE_STACKS) = 16
    /\ \A typeName \in DOMAIN COGNITIVE_STACKS :
          /\ Len(COGNITIVE_STACKS[typeName]) = 4
          /\ \A i \in 1..4 : COGNITIVE_STACKS[typeName][i] \in FUNCTIONS
    /\ stackWeights = <<2 * 4, 2 * 2, 2 * 1, 1>>
    /\ \A i \in 1..3 : stackWeights[i] > stackWeights[i + 1]
    /\ returned.fn = "validateConstants" => returned.out = TRUE

\* validateConstants() was called and returned true
ConstantTablesWellFormedWitness ==
    /\ call.fn = "validateConstants"
    /\ returned.fn = "validateConstants"
    /\ returned.out

(***************************************************************************)
(* Sequencer claims                                                        *)
(***************************************************************************)
ShuffleReturned == shuffleOutput.path # "none"

\* how often the question with this id occurs in the array
Occurrences(array, id) == Cardinality({i \in 1..Len(array) : array[i].id = id})

\* C17: on the constrained path and on the fallback path the returned array
\* is a permutation of the bank: the same questions, each id as often as in
\* the bank.
ShuffleIsPermutation ==
    ShuffleReturned =>
        /\ Len(shuffleOutput.questions) = Len(shuffleInput)
        /\ \A i \in 1..Len(shuffleInput) :
              /\ \E j \in 1..Len(shuffleInput) :
                    shuffleOutput.questions[j] = shuffleInput[i]
              /\ Occurrences(shuffleOutput.questions, shuffleInput[i].id)
                    = Occurrences(shuffleInput, shuffleInput[i].id)

\* the fallback returned an order other than that of the bank
ShuffleIsPermutationWitness ==
    /\ shuffleOutput.path = "fallback"
    /\ shuffleOutput.questions # shuffleInput
    /\ hasConsecutive(shuffleOutput.questions)

\* C18: the call makes at most 1000 attempts, takes the fallback only after
\* the 1000th, and returns in the end, for every bank, also one that cannot
\* be ordered without neighbours of the same dimension.
ShuffleTerminates ==
    /\ [](attempt \in 0..maxAttempts)
    /\ [](shuffleOutput.path = "fallback" => attempt = maxAttempts)
    /\ <>ShuffleReturned

\* a bank of one dimension went through 1000 failed attempts and was
\* returned by the fallback
ShuffleTerminatesWitness ==
    /\ shuffleOutput.path = "fallback"
    /\ attempt = maxAttempts
    /\ \A i \in 1..Len(shuffleInput) : shuffleInput[i].type = "Ni"

\* an order of the bank without neighbours of the same dimension exists
Satisfiable(bank) == \E order \in fisherYatesShuffle(bank) : ~hasConsecutive(order)

\* C19: for a bank that has a valid order, no two consecutive questions of
\* the returned order share a dimension.
ShuffleSatisfiesConstraint ==
    (ShuffleReturned /\ Satisfiable(shuffleInput)) =>
        ~hasConsecutive(shuffleOutput.questions)

\* C20: when all 1000 attempts fail, the returned order is the permutation
\* of the 1000th attempt.
FallbackReturnsLastAttempt ==
    shuffleOutput.path = "fallback" => shuffleOutput.questions = shuffled

\* C29: an order returned from inside the retry loop has no two consecutive
\* questions of the same dimension: result[i].type differs from
\* result[i - 1].type for every i >= 1.
ConstrainedReturnHasNoNeighbours ==
    shuffleOutput.path = "constrained" =>
        \A i \in 2..Len(shuffleOutput.questions) :
            shuffleOutput.questions[i].type
                # shuffleOutput.questions[i - 1].type

\* the loop returned after failed attempts, for a bank with two questions
\* of one dimension, in an order other than that of the bank
ConstrainedReturnHasNoNeighboursWitness ==
    /\ shuffleOutput.path = "constrained"
    /\ attempt > 0
    /\ shuffleOutput.questions # shuffleInput
    /\ \E i \in 1..Len(shuffleInput) : \E j \in 1..Len(shuffleInput) :
          i # j /\ shuffleInput[i].type = shuffleInput[j].type

====
